---------------------------- MODULE Spec2Model ----------------------------
(***************************************************************************)
(* camera-model.py: a Scene with a drawing (draft) list and an active      *)
(* list of 3D objects, and a Camera whose render thread (Camera.run)       *)
(* repeatedly snapshots the active list, clears the hidden canvas, draws   *)
(* every object and swaps hidden into shown, while the interactive loop    *)
(* (Camera.play) shows the canvas and moves the camera.                    *)
(*                                                                         *)
(* Python lists and numpy arrays are heap objects reached by reference:    *)
(* the lists live in `heap` and the canvas buffers in `bufs`, and the      *)
(* attributes hold identifiers (0 is None).  Lengths are in hundredths of  *)
(* a metre, only the depth (z) axis is modelled and the rotation stays the *)
(* identity, so the camera-frame depth of a point is z - camera z.         *)
(*                                                                         *)
(* Spec is the scene, the render thread and the calling thread together.   *)
(* RefreshSpec follows the refresh of one object (Point, Line, Vertices)   *)
(* through trans_to_cam, project and the canvas call, with pixels as exact *)
(* fractions.  ZoomSpec and LensSpec follow the focus and scale keys of    *)
(* play and the three-step setters of the intrinsic matrix, LensSpec       *)
(* against the projections of the render thread.                           *)
(***************************************************************************)
EXTENDS Integers, Sequences, FiniteSets, TLC

\* ------------------------------------------------------------- bounds
MaxObjs == 2
NumLists == 4
NumBufs == 3
MaxCamZ == 0

\* -------------------------------------------------- program constants
NearPlane == 3
CamStep == 10
CanvasW == 800
CanvasH == 640
\* The lens: focus in tenths of a metre, scale in pixels per metre.
FocusInit == 10
ScaleInit == 800
FocusStep == 1
FocusMin == 1
FocusMax == 20000
ScaleStep == 10

\* Arguments of the draw calls: the depths of a point, of a line's two ends and
\* of a vertex cloud (hundredths of a metre).
PointZ == {0}
LineEnds == {<<0, 20>>}
VertsZ == {20}
\* Scene.set_camera's z (test() passes -10 m; here one camera step).
StartZ == {-10}
None == 0

VARIABLES
    objs,               \* the Object3D instances created so far
    heap,               \* list id -> the list's items (object ids)
    active_objects,     \* Scene._active_objects (a list id)
    drawing_objects,    \* Scene._drawing_objects (a list id)
    scene,              \* Camera._scene is set
    running,            \* Camera._running
    camz,               \* Camera._z
    bufs,               \* buffer id -> the array's contents
    canvas_shown,       \* Camera._canvas_shown (a buffer id, 0 is None)
    canvas_hidden,      \* Camera._canvas_hidden (a buffer id, 0 is None)
    canvas_lock,        \* holder of Camera._canvas_lock
    rpc,                \* the render thread's position in Camera.run
    objects,            \* run's local `objects` (a list id, 0 before the first call)
    ri,                 \* index of run's for loop over `objects`
    proj_ok,            \* run: the current object's projection is not the sentinel
    mpc,                \* the calling thread's position (show / play / stop)
    stop_ret,           \* how the last stop() ended
    pending,            \* history: objects drawn since the last flush or clear
    published,          \* history: the draft contents at the last flush, empty after a clear
    last_flush,         \* history: the draft contents at the last completed flush
    focus,              \* Camera._f (tenths of a metre)
    scale,              \* Camera._s
    intrinsic,          \* Camera.intrinsic: <<[0][0], [1][1]>> (tenths of a pixel)
    seen,               \* the <<[0][0], [1][1]>> the render thread's last project read
    obj,                \* the object whose refresh is followed in detail
    call                \* the canvas call that refresh made

sceneVars == <<objs, heap, active_objects, drawing_objects>>
histVars == <<pending, published, last_flush>>
camVars == <<scene, running, camz>>
canvasVars == <<bufs, canvas_shown, canvas_hidden>>
renderVars == <<rpc, objects, ri, proj_ok>>
mainVars == <<mpc, stop_ret>>
lensVars == <<focus, scale, intrinsic, seen>>
refreshVars == <<obj, call>>
modelVars == <<sceneVars, histVars, camVars, canvasVars, canvas_lock, renderVars, mainVars>>
vars == <<objs, heap, active_objects, drawing_objects, scene, running, camz,
          bufs, canvas_shown, canvas_hidden, canvas_lock, rpc, objects, ri,
          proj_ok, mpc, stop_ret, pending, published,
          last_flush, focus, scale, intrinsic, seen, obj, call>>

\* ------------------------------------------------------------ helpers
Range(s) == {s[i] : i \in 1..Len(s)}

\* The least identifier of 1..n that is not in `used`: a fresh allocation.
Fresh(n, used) == CHOOSE i \in 1..n : i \notin used /\ \A j \in 1..(i-1) : j \in used

\* Unreferenced lists and buffers are garbage: their contents are dropped.
Collect(h, refs, empty) == [i \in DOMAIN h |-> IF i \in refs THEN h[i] ELSE empty]

\* np.zeros((height, width, 3)): a blank array of the canvas dimensions.
Zeros == [shape |-> <<CanvasH, CanvasW>>, ops |-> <<>>]

\* Object3D.__init__ / unbind: the object's scene back-reference.
Unbind(os, ids) == [i \in DOMAIN os |-> IF i \in ids THEN [os[i] EXCEPT !.bound = FALSE] ELSE os[i]]

\* Mutant of ListAppend: the object is put at the front (list.insert(0, obj)).
ListPrepend(items, o) == <<o>> \o items

\* list.append
ListAppend(items, o) == Append(items, o)

\* Mutant of get_objects: the drawing list is handed out.
get_objects_draft == drawing_objects

\* Scene.get_objects: the list the scene hands out.
get_objects == active_objects

\* Mutant of trans_to_cam: the camera position is added, not subtracted.
trans_to_cam_added(z) == z + camz

\* Camera.trans_to_cam with the identity rotation: depth in the camera frame.
trans_to_cam(z) == z - camz

\* Camera.project: a point nearer than the near plane projects to the nan sentinel.
project_valid(depth) == ~(depth < NearPlane)

\* Camera.trans_to_cam of a vertex <<x, y, z>> (hundredths of a metre): the
\* rotation is the identity and the camera stays on the z axis.
trans_to_cam3(v) == <<v[1], v[2], trans_to_cam(v[3])>>

\* The nan sentinel of a projection, and a projected pixel as exact fractions
\* un/d and vn/d.
Nan == [nan |-> TRUE, un |-> 0, vn |-> 0, d |-> 1]

\* Camera.project of a camera-frame vertex <<X, Y, Z>>: intrinsic . v divided by
\* Z, nan below the near plane, then flipped: [width, height] - pixel.  The
\* principal point is (width / 2, height / 2); intrinsic is in tenths.
project(v) ==
    IF ~project_valid(v[3])
    THEN Nan
    ELSE [nan |-> FALSE,
          un |-> 10 * CanvasW * v[3] - (intrinsic[1] * v[1] + 10 * (CanvasW \div 2) * v[3]),
          vn |-> 10 * CanvasH * v[3] - (intrinsic[2] * v[2] + 10 * (CanvasH \div 2) * v[3]),
          d |-> 10 * v[3]]

\* ndarray.astype(int) of n/d (d > 0): truncation towards zero.
AsInt(n, d) == IF n >= 0 THEN n \div d ELSE -((-n) \div d)

\* astype(int) of nan is no defined conversion: the build yields the least
\* integer (x86; a 32-bit stand-in for numpy's -2^63) or 0 (arm).
NanAsInt == {-2147483647, 0}

\* round() of n/d (d > 0): to the nearest integer, a half to the even one.
Round(n, d) ==
    LET q == n \div d
        r == n % d IN
    IF 2 * r < d THEN q
    ELSE IF 2 * r > d THEN q + 1
    ELSE IF q % 2 = 0 THEN q ELSE q + 1

\* Mutant of line_visible: one projected end is enough.
line_visible_any(ok1, ok2) == ok1 \/ ok2

\* Line.refresh: the segment is drawn unless an end projects to nan (or inf).
line_visible(ok1, ok2) == ~(~ok1 \/ ~ok2)

\* Mutant of xy_filter: the edges are let through.
xy_filter_wide(x, y) == ((y >= 0) /\ (y <= CanvasH)) /\ ((x >= 0) /\ (x <= CanvasW))

\* Camera.render: the pixels of a vertex cloud that are written.
xy_filter(x, y) == ((y > 0) /\ (y < CanvasH)) /\ ((x > 0) /\ (x < CanvasW))

\* No object followed, no call made yet.
NoObj == [kind |-> "none"]
NoCall == [op |-> "none"]

TypeOK ==
    /\ active_objects \in 1..NumLists
    /\ drawing_objects \in 1..NumLists
    /\ objects \in 0..NumLists
    /\ canvas_shown \in 1..NumBufs
    /\ canvas_hidden \in 0..NumBufs
    /\ canvas_lock \in {"free", "render", "main"}
    /\ camz <= MaxCamZ
    /\ Len(objs) <= MaxObjs

Init ==
    /\ objs = <<>>
    /\ heap = [i \in 1..NumLists |-> <<>>]
    /\ active_objects = 1
    /\ drawing_objects = 2
    /\ scene = FALSE
    /\ running = TRUE
    /\ camz = 0
    /\ bufs = [i \in 1..NumBufs |-> Zeros]
    /\ canvas_shown = 1
    /\ canvas_hidden = 2
    /\ canvas_lock = "free"
    /\ rpc = "new"
    /\ objects = None
    /\ ri = 0
    /\ proj_ok = FALSE
    /\ mpc = "idle"
    /\ stop_ret = "none"
    /\ pending = <<>>
    /\ published = <<>>
    /\ last_flush = <<>>
    /\ focus = FocusInit
    /\ scale = ScaleInit
    /\ intrinsic = <<FocusInit * ScaleInit, FocusInit * ScaleInit>>
    /\ seen = <<>>
    /\ obj = NoObj
    /\ call = NoCall

\* ------------------------------------------------------------- Scene
\* draw_point_3d / draw_line_3d / draw_vertices: build the object, bind it,
\* append it to the drawing list under the object lock.
Draw(kind, z, z2) ==
    /\ Len(objs) < MaxObjs
    /\ LET o == Len(objs) + 1 IN
        /\ objs' = Append(objs, [kind |-> kind, z |-> z, z2 |-> z2, bound |-> TRUE])
        /\ heap' = [heap EXCEPT ![drawing_objects] = ListAppend(@, o)]
        /\ pending' = Append(pending, o)
    /\ UNCHANGED <<active_objects, drawing_objects, published, last_flush>>
    /\ UNCHANGED <<camVars, canvasVars, canvas_lock, renderVars, mainVars>>
    /\ UNCHANGED <<lensVars, refreshVars>>

draw_point_3d == \E z \in PointZ : Draw("point", z, z)

draw_line_3d == \E e \in LineEnds : Draw("line", e[1], e[2])

draw_vertices == \E z \in VertsZ : Draw("verts", z, z)

\* Mutant of flush: the drawing list is not replaced by a new list, so the
\* active and the drawing list are one list.
flush_no_rebind ==
    /\ objs' = Unbind(objs, Range(heap[active_objects]))
    /\ active_objects' = drawing_objects
    /\ drawing_objects' = drawing_objects
    /\ heap' = Collect(heap, {drawing_objects, objects}, <<>>)
    /\ pending' = <<>>
    /\ published' = pending
    /\ last_flush' = pending
    /\ UNCHANGED <<camVars, canvasVars, canvas_lock, renderVars, mainVars>>
    /\ UNCHANGED <<lensVars, refreshVars>>

\* Mutant of flush: the active list becomes a copy of the drawing list, which
\* is kept.
flush_keep_draft ==
    /\ LET new == Fresh(NumLists, {drawing_objects, objects}) IN
        /\ objs' = Unbind(objs, Range(heap[active_objects]))
        /\ active_objects' = new
        /\ heap' = Collect([heap EXCEPT ![new] = heap[drawing_objects]],
                           {drawing_objects, new, objects}, <<>>)
    /\ pending' = <<>>
    /\ published' = pending
    /\ last_flush' = pending
    /\ UNCHANGED drawing_objects
    /\ UNCHANGED <<camVars, canvasVars, canvas_lock, renderVars, mainVars>>
    /\ UNCHANGED <<lensVars, refreshVars>>

\* Scene.flush: unbind the active objects, make the drawing list the active
\* list and bind a new empty list as the drawing list.
flush ==
    /\ LET new == Fresh(NumLists, {drawing_objects, objects}) IN
        /\ objs' = Unbind(objs, Range(heap[active_objects]))
        /\ active_objects' = drawing_objects
        /\ drawing_objects' = new
        /\ heap' = Collect([heap EXCEPT ![new] = <<>>], {drawing_objects, new, objects}, <<>>)
    /\ pending' = <<>>
    /\ published' = pending
    /\ last_flush' = pending
    /\ UNCHANGED <<camVars, canvasVars, canvas_lock, renderVars, mainVars>>
    /\ UNCHANGED <<lensVars, refreshVars>>

\* Mutant of clear: only the active list is unbound and replaced.
clear_active_only ==
    /\ LET a == Fresh(NumLists, {objects, drawing_objects}) IN
        /\ objs' = Unbind(objs, Range(heap[active_objects]))
        /\ active_objects' = a
        /\ heap' = Collect([heap EXCEPT ![a] = <<>>], {a, drawing_objects, objects}, <<>>)
    /\ pending' = <<>>
    /\ published' = <<>>
    /\ UNCHANGED <<drawing_objects, last_flush>>
    /\ UNCHANGED <<camVars, canvasVars, canvas_lock, renderVars, mainVars>>
    /\ UNCHANGED <<lensVars, refreshVars>>

\* Scene.clear: unbind the objects of both lists and bind two new empty lists.
clear ==
    /\ LET a == Fresh(NumLists, {objects})
           d == Fresh(NumLists, {objects, a}) IN
        /\ objs' = Unbind(objs, Range(heap[active_objects]) \cup Range(heap[drawing_objects]))
        /\ active_objects' = a
        /\ drawing_objects' = d
        /\ heap' = Collect([heap EXCEPT ![a] = <<>>, ![d] = <<>>], {a, d, objects}, <<>>)
    /\ pending' = <<>>
    /\ published' = <<>>
    /\ UNCHANGED last_flush
    /\ UNCHANGED <<camVars, canvasVars, canvas_lock, renderVars, mainVars>>
    /\ UNCHANGED <<lensVars, refreshVars>>

\* Scene.set_camera: Camera.set_scene and Camera.move.
set_camera ==
    /\ mpc = "idle"
    /\ \E z \in StartZ : camz' = z
    /\ scene' = TRUE
    /\ UNCHANGED <<running, sceneVars, histVars, canvasVars, canvas_lock, renderVars, mainVars>>
    /\ UNCHANGED <<lensVars, refreshVars>>

\* ------------------------------------------------- Camera: render thread
\* Thread.start: the render thread begins Camera.run.
start ==
    /\ mpc = "idle"
    /\ rpc = "new"
    /\ rpc' = "loop"
    /\ UNCHANGED <<objects, ri, proj_ok, sceneVars, histVars, camVars, canvasVars, canvas_lock, mainVars>>
    /\ UNCHANGED <<lensVars, refreshVars>>

\* run: `while self._running` and `if not self._scene: sleep; continue`, the
\* two flags read in one step; when run returns its locals are released.
run_while ==
    /\ rpc = "loop"
    /\ IF running
       THEN /\ rpc' = IF scene THEN "get" ELSE "loop"
            /\ UNCHANGED <<objects, heap>>
       ELSE /\ rpc' = "done"
            /\ objects' = None
            /\ heap' = Collect(heap, {active_objects, drawing_objects}, <<>>)
    /\ UNCHANGED <<ri, proj_ok, objs, active_objects, drawing_objects, histVars, camVars, canvasVars, canvas_lock, mainVars>>
    /\ UNCHANGED <<lensVars, refreshVars>>

\* Mutant of run_get: the list of the first call is kept for every pass.
run_get_cached ==
    /\ rpc = "get"
    /\ objects' = IF objects = None THEN get_objects ELSE objects
    /\ heap' = Collect(heap, {active_objects, drawing_objects, objects'}, <<>>)
    /\ rpc' = IF Len(heap[objects']) = 0 THEN "loop" ELSE "clean"
    /\ UNCHANGED <<ri, proj_ok, objs, active_objects, drawing_objects, histVars, camVars, canvasVars, canvas_lock, mainVars>>
    /\ UNCHANGED <<lensVars, refreshVars>>

\* Mutant of run_get: the pass is made for an empty list too.
run_get_always ==
    /\ rpc = "get"
    /\ objects' = get_objects
    /\ heap' = Collect(heap, {active_objects, drawing_objects, get_objects}, <<>>)
    /\ rpc' = "clean"
    /\ UNCHANGED <<ri, proj_ok, objs, active_objects, drawing_objects, histVars, camVars, canvasVars, canvas_lock, mainVars>>
    /\ UNCHANGED <<lensVars, refreshVars>>

\* run: `objects = self._scene.get_objects()` (the list `objects` named before
\* loses that reference) and `if len(objects) == 0: continue`, the length
\* being that of the list just obtained.
run_get ==
    /\ rpc = "get"
    /\ objects' = get_objects
    /\ heap' = Collect(heap, {active_objects, drawing_objects, get_objects}, <<>>)
    /\ rpc' = IF Len(heap[get_objects]) = 0 THEN "loop" ELSE "clean"
    /\ UNCHANGED <<ri, proj_ok, objs, active_objects, drawing_objects, histVars, camVars, canvasVars, canvas_lock, mainVars>>
    /\ UNCHANGED <<lensVars, refreshVars>>

\* `with self._canvas_lock` of the render thread's canvas operations.
render_acquire ==
    /\ rpc \in {"clean", "draw", "flush"}
    /\ canvas_lock = "free"
    /\ canvas_lock' = "render"
    /\ rpc' = CASE rpc = "clean" -> "clean_cs" [] rpc = "draw" -> "draw_cs" [] OTHER -> "flush_cs"
    /\ UNCHANGED <<objects, ri, proj_ok, sceneVars, histVars, camVars, canvasVars, mainVars>>
    /\ UNCHANGED <<lensVars, refreshVars>>

\* Mutant of clean_canvas: the hidden buffer is zeroed in place when there is
\* one, and no new buffer is made.
clean_in_place ==
    /\ rpc = "clean_cs"
    /\ bufs' = IF canvas_hidden = None THEN bufs ELSE [bufs EXCEPT ![canvas_hidden] = Zeros]
    /\ canvas_lock' = "free"
    /\ rpc' = "view"
    /\ ri' = 1
    /\ UNCHANGED <<objects, proj_ok, canvas_shown, canvas_hidden, sceneVars, histVars, camVars, mainVars>>
    /\ UNCHANGED <<lensVars, refreshVars>>

\* Mutant of clean_canvas: the shown buffer is zeroed and taken as the hidden
\* one.
clean_reuse_shown ==
    /\ rpc = "clean_cs"
    /\ canvas_hidden' = canvas_shown
    /\ bufs' = Collect([bufs EXCEPT ![canvas_shown] = Zeros], {canvas_shown}, Zeros)
    /\ canvas_lock' = "free"
    /\ rpc' = "view"
    /\ ri' = 1
    /\ UNCHANGED <<objects, proj_ok, canvas_shown, sceneVars, histVars, camVars, mainVars>>
    /\ UNCHANGED <<lensVars, refreshVars>>

\* clean_canvas: a new blank hidden buffer.
clean_canvas ==
    /\ rpc = "clean_cs"
    /\ LET new == Fresh(NumBufs, {canvas_shown}) IN
        /\ canvas_hidden' = new
        /\ bufs' = Collect([bufs EXCEPT ![new] = Zeros], {canvas_shown, new}, Zeros)
    /\ canvas_lock' = "free"
    /\ rpc' = "view"
    /\ ri' = 1
    /\ UNCHANGED <<objects, proj_ok, canvas_shown, sceneVars, histVars, camVars, mainVars>>
    /\ UNCHANGED <<lensVars, refreshVars>>

\* run's `for obj in objects: self.view(obj)`, up to the draw call of refresh:
\* Point.refresh rounds the projection (round(nan) raises ValueError and
\* ends the thread), Line.refresh returns on a sentinel end, Vertices.refresh
\* always calls render.
view ==
    /\ rpc = "view"
    /\ IF ri > Len(heap[objects])
       THEN /\ rpc' = "flush"
            /\ UNCHANGED <<ri, proj_ok>>
       ELSE LET o == objs[heap[objects][ri]]
                ok1 == project_valid(trans_to_cam(o.z))
                ok2 == project_valid(trans_to_cam(o.z2)) IN
            CASE o.kind = "point" ->
                    /\ rpc' = IF ok1 THEN "draw" ELSE "crashed"
                    /\ proj_ok' = ok1
                    /\ ri' = IF ok1 THEN ri ELSE 0
              [] o.kind = "line" ->
                    /\ rpc' = IF line_visible(ok1, ok2) THEN "draw" ELSE "view"
                    /\ proj_ok' = line_visible(ok1, ok2)
                    /\ ri' = IF line_visible(ok1, ok2) THEN ri ELSE ri + 1
              [] OTHER ->
                    /\ rpc' = "draw"
                    /\ proj_ok' = ok1
                    /\ ri' = ri
    /\ IF rpc' = "crashed"
       THEN /\ objects' = None
            /\ heap' = Collect(heap, {active_objects, drawing_objects}, <<>>)
       ELSE UNCHANGED <<objects, heap>>
    /\ UNCHANGED <<objs, active_objects, drawing_objects, histVars, camVars, canvasVars, canvas_lock, mainVars>>
    /\ UNCHANGED <<lensVars, refreshVars>>

\* draw_point_2d / draw_line_2d / render: write the object into the hidden
\* buffer (a vertex with a sentinel projection is filtered out); writing
\* into None raises and ends the thread.
draw_2d ==
    /\ rpc = "draw_cs"
    /\ IF canvas_hidden = None
       THEN /\ rpc' = "crashed"
            /\ ri' = 0
            /\ objects' = None
            /\ heap' = Collect(heap, {active_objects, drawing_objects}, <<>>)
            /\ UNCHANGED bufs
       ELSE /\ rpc' = "view"
            /\ ri' = ri + 1
            /\ bufs' = IF proj_ok
                        THEN [bufs EXCEPT ![canvas_hidden].ops = Append(@, heap[objects][ri])]
                        ELSE bufs
            /\ UNCHANGED <<objects, heap>>
    /\ proj_ok' = FALSE
    /\ canvas_lock' = "free"
    /\ UNCHANGED <<canvas_shown, canvas_hidden, objs, active_objects, drawing_objects, histVars, camVars, mainVars>>
    /\ UNCHANGED <<lensVars, refreshVars>>

\* flush_canvas: hidden becomes shown, hidden becomes None.
flush_canvas ==
    /\ rpc = "flush_cs"
    /\ canvas_shown' = canvas_hidden
    /\ canvas_hidden' = None
    /\ bufs' = Collect(bufs, {canvas_hidden}, Zeros)
    /\ canvas_lock' = "free"
    /\ rpc' = "loop"
    /\ ri' = 0
    /\ UNCHANGED <<objects, proj_ok, sceneVars, histVars, camVars, mainVars>>
    /\ UNCHANGED <<lensVars, refreshVars>>

RenderNext ==
    \/ run_while
    \/ run_get
    \/ render_acquire
    \/ clean_canvas
    \/ view
    \/ draw_2d
    \/ flush_canvas

\* ---------------------------------------------- Camera: calling thread
Alive == rpc \notin {"new", "done", "crashed"}

\* stop: clear the running flag, then Thread.join, which raises RuntimeError
\* for a thread that was never started and returns at once for one that ended.
stop ==
    /\ mpc = "idle"
    /\ running' = FALSE
    /\ IF rpc = "new"
       THEN mpc' = "idle" /\ stop_ret' = "error"
       ELSE IF Alive
            THEN mpc' = "joining" /\ stop_ret' = "none"
            ELSE mpc' = "idle" /\ stop_ret' = "immediate"
    /\ UNCHANGED <<scene, camz, sceneVars, histVars, canvasVars, canvas_lock, renderVars>>
    /\ UNCHANGED <<lensVars, refreshVars>>

\* stop: join returns once the render thread has ended.
stop_join ==
    /\ mpc = "joining"
    /\ ~Alive
    /\ mpc' = "idle"
    /\ stop_ret' = "joined"
    /\ UNCHANGED <<sceneVars, histVars, camVars, canvasVars, canvas_lock, renderVars>>
    /\ UNCHANGED <<lensVars, refreshVars>>

\* Mutant of play_acquire: the canvas is shown without taking the lock.
play_no_lock ==
    /\ mpc = "idle"
    /\ mpc' = "play_cs"
    /\ UNCHANGED <<canvas_lock, stop_ret, sceneVars, histVars, camVars, canvasVars, renderVars>>
    /\ UNCHANGED <<lensVars, refreshVars>>

\* play: `with self._canvas_lock` of a frame.  The thread between two frames
\* of play is at "idle", as it is between two calls: leaving play (ESC) and
\* entering it again change nothing.
play_acquire ==
    /\ mpc = "idle"
    /\ canvas_lock = "free"
    /\ canvas_lock' = "main"
    /\ mpc' = "play_cs"
    /\ UNCHANGED <<stop_ret, sceneVars, histVars, camVars, canvasVars, renderVars>>
    /\ UNCHANGED <<lensVars, refreshVars>>

\* play: imshow of the shown buffer (the text overlay is not modelled), then
\* the lock is released.
play_show ==
    /\ mpc = "play_cs"
    /\ canvas_lock' = "free"
    /\ mpc' = "key"
    /\ UNCHANGED <<stop_ret, canvasVars, sceneVars, histVars, camVars, renderVars>>
    /\ UNCHANGED <<lensVars, refreshVars>>

\* play: the key read by waitKey: ESC, 'e' (z + 0.1) or none.
Keys == {"esc", "e", "none"}

play_key ==
    /\ mpc = "key"
    /\ \E key \in Keys :
        /\ mpc' = "idle"
        /\ camz' = IF key = "e" /\ camz + CamStep <= MaxCamZ THEN camz + CamStep ELSE camz
    /\ UNCHANGED <<stop_ret, scene, running, sceneVars, histVars, canvasVars, canvas_lock, renderVars>>
    /\ UNCHANGED <<lensVars, refreshVars>>

MainNext ==
    \/ set_camera
    \/ start
    \/ stop
    \/ stop_join
    \/ play_acquire
    \/ play_show
    \/ play_key

SceneNext ==
    \/ draw_point_3d
    \/ draw_line_3d
    \/ draw_vertices
    \/ flush
    \/ clear

Next == SceneNext \/ RenderNext \/ MainNext

Spec == Init /\ [][Next]_vars

\* The render thread is scheduled whenever it can run (play sleeps between
\* its frames, so the lock comes free again and again), and a thread that
\* holds the canvas lock goes on to release it; a join returns once the thread
\* it waits for has ended.
FairSpec == Spec /\ SF_vars(RenderNext) /\ WF_vars(play_show) /\ WF_vars(stop_join)

\* ------------------------------------------------------- the lens keys
Max(a, b) == IF a >= b THEN a ELSE b
Min(a, b) == IF a <= b THEN a ELSE b

\* Mutant of key_minus: the new focus is not clamped.
key_minus_unclamped ==
    /\ mpc = "key"
    /\ focus' = focus - FocusStep
    /\ mpc' = "set00"
    /\ UNCHANGED <<scale, intrinsic, seen, stop_ret, refreshVars>>
    /\ UNCHANGED <<sceneVars, histVars, camVars, canvasVars, canvas_lock, renderVars>>

\* play, key '-': `self.focus = max(self.focus - 0.1, 0.1)`, up to the
\* setter's `self._f = value`.
key_minus ==
    /\ mpc = "key"
    /\ focus' = Max(focus - FocusStep, FocusMin)
    /\ mpc' = "set00"
    /\ UNCHANGED <<scale, intrinsic, seen, stop_ret, refreshVars>>
    /\ UNCHANGED <<sceneVars, histVars, camVars, canvasVars, canvas_lock, renderVars>>

\* play, key '=': `self.focus = min(self.focus + 0.1, 2000)`, up to the
\* setter's `self._f = value`.
key_equal ==
    /\ mpc = "key"
    /\ focus' = Min(focus + FocusStep, FocusMax)
    /\ mpc' = "set00"
    /\ UNCHANGED <<scale, intrinsic, seen, stop_ret, refreshVars>>
    /\ UNCHANGED <<sceneVars, histVars, camVars, canvasVars, canvas_lock, renderVars>>

\* play, keys ']' and '[': `self.scale += 10`, `self.scale -= 10`, up to the
\* setter's `self._s = value`.
key_bracket ==
    /\ mpc = "key"
    /\ \E d \in {ScaleStep, -ScaleStep} : scale' = scale + d
    /\ mpc' = "set00"
    /\ UNCHANGED <<focus, intrinsic, seen, stop_ret, refreshVars>>
    /\ UNCHANGED <<sceneVars, histVars, camVars, canvasVars, canvas_lock, renderVars>>

\* focus.setter / scale.setter: `self.intrinsic[0][0] = self._f * self._s`.
set_intrinsic00 ==
    /\ mpc = "set00"
    /\ intrinsic' = [intrinsic EXCEPT ![1] = focus * scale]
    /\ mpc' = "set11"
    /\ UNCHANGED <<focus, scale, seen, stop_ret, refreshVars>>
    /\ UNCHANGED <<sceneVars, histVars, camVars, canvasVars, canvas_lock, renderVars>>

\* focus.setter / scale.setter: `self.intrinsic[1][1] = self._f * self._s`;
\* the key is handled and play goes on to its next frame.
set_intrinsic11 ==
    /\ mpc = "set11"
    /\ intrinsic' = [intrinsic EXCEPT ![2] = focus * scale]
    /\ mpc' = "idle"
    /\ UNCHANGED <<focus, scale, seen, stop_ret, refreshVars>>
    /\ UNCHANGED <<sceneVars, histVars, camVars, canvasVars, canvas_lock, renderVars>>

\* project, on the render thread: `np.dot(self.intrinsic, v.T)` reads the
\* matrix, taking no lock.
project_read ==
    /\ Alive
    /\ seen' = intrinsic
    /\ UNCHANGED <<focus, scale, intrinsic, refreshVars, modelVars>>

\* The zoom keys alone, from the initial focus.
ZoomNext ==
    \/ play_acquire
    \/ play_show
    \/ key_minus
    \/ key_equal
    \/ set_intrinsic00
    \/ set_intrinsic11

ZoomSpec == Init /\ [][ZoomNext]_vars

\* The lens keys against the projections of a started render thread, the
\* focus and the scale within MaxLensKeys key presses of their initial values.
MaxLensKeys == 2
LensBounded ==
    /\ focus \in (FocusInit - MaxLensKeys * FocusStep)..(FocusInit + MaxLensKeys * FocusStep)
    /\ scale \in (ScaleInit - MaxLensKeys * ScaleStep)..(ScaleInit + MaxLensKeys * ScaleStep)

LensNext ==
    \/ start
    \/ play_acquire
    \/ play_show
    \/ key_minus /\ LensBounded'
    \/ key_equal /\ LensBounded'
    \/ key_bracket /\ LensBounded'
    \/ set_intrinsic00
    \/ set_intrinsic11
    \/ project_read

LensSpec == Init /\ [][LensNext]_vars

\* -------------------------------------------- refresh of one object
\* The objects whose refresh is followed: points, lines and vertex clouds at
\* these places (hundredths of a metre), seen from the camera at these z.
MaxVerts == 2
RefreshCamZ == {-1000, 0}
RefreshVerts == {<<x, y, 0>> : x \in {-500, 0, 100, 500}, y \in {0, 400}} \cup {<<0, 0, 20>>}
RefreshEnds == {<<0, 0, 0>>, <<100, 0, 0>>, <<0, 0, 20>>}
RefreshPoints == {<<10, -10, 100>>, <<0, 0, 0>>, <<125, 0, 0>>}
Clouds == UNION {[1..n -> RefreshVerts] : n \in 1..MaxVerts}

RefreshObjs ==
    {[kind |-> "point", v |-> <<p>>, color |-> "green", texture |-> <<>>] : p \in RefreshPoints}
    \cup {[kind |-> "line", v |-> <<a, b>>, color |-> "red", texture |-> <<>>] :
                a \in RefreshEnds, b \in RefreshEnds}
    \cup {[kind |-> "verts", v |-> c, color |-> "white", texture |-> <<>>] : c \in Clouds}
    \cup {[kind |-> "verts", v |-> c, color |-> "white",
           texture |-> [i \in 1..Len(c) |-> <<"texel", i>>]] : c \in Clouds}

\* A camera bound to a scene at one of the positions, about to refresh one of
\* the objects.
RefreshInit ==
    /\ objs = <<>>
    /\ heap = [i \in 1..NumLists |-> <<>>]
    /\ active_objects = 1
    /\ drawing_objects = 2
    /\ scene = TRUE
    /\ running = TRUE
    /\ camz \in RefreshCamZ
    /\ bufs = [i \in 1..NumBufs |-> Zeros]
    /\ canvas_shown = 1
    /\ canvas_hidden = 2
    /\ canvas_lock = "free"
    /\ rpc = "new"
    /\ objects = None
    /\ ri = 0
    /\ proj_ok = FALSE
    /\ mpc = "idle"
    /\ stop_ret = "none"
    /\ pending = <<>>
    /\ published = <<>>
    /\ last_flush = <<>>
    /\ focus = FocusInit
    /\ scale = ScaleInit
    /\ intrinsic = <<FocusInit * ScaleInit, FocusInit * ScaleInit>>
    /\ seen = <<>>
    /\ obj \in RefreshObjs
    /\ call = NoCall

\* Point.refresh: the projection is rounded (round(nan) raises ValueError) and
\* handed to draw_point_2d.
Point_refresh ==
    /\ obj.kind = "point"
    /\ call = NoCall
    /\ LET p == project(trans_to_cam3(obj.v[1])) IN
        call' = IF p.nan
                THEN [op |-> "raise"]
                ELSE [op |-> "circle", at |-> <<Round(p.un, p.d), Round(p.vn, p.d)>>,
                      color |-> obj.color]
    /\ UNCHANGED <<obj, lensVars, modelVars>>

\* Line.refresh: return on a nan (or inf) end, else draw_line_2d of the two
\* ends cut to integers.
Line_refresh ==
    /\ obj.kind = "line"
    /\ call = NoCall
    /\ LET a == project(trans_to_cam3(obj.v[1]))
           b == project(trans_to_cam3(obj.v[2])) IN
        call' = IF line_visible(~a.nan, ~b.nan)
                THEN [op |-> "line", start |-> <<AsInt(a.un, a.d), AsInt(a.vn, a.d)>>,
                      end |-> <<AsInt(b.un, b.d), AsInt(b.vn, b.d)>>, color |-> obj.color]
                ELSE [op |-> "skip"]
    /\ UNCHANGED <<obj, lensVars, modelVars>>

\* The pixel writes of render: for every vertex that passes xy_filter, in
\* order, its pixel and its texture colour, or the cloud's colour.
RECURSIVE Writes(_, _, _, _)
Writes(o, nanint, i, acc) ==
    IF i > Len(o.v) THEN acc
    ELSE LET p == project(trans_to_cam3(o.v[i]))
             x == IF p.nan THEN nanint ELSE AsInt(p.un, p.d)
             y == IF p.nan THEN nanint ELSE AsInt(p.vn, p.d)
             w == [vertex |-> i, at |-> <<x, y>>,
                   color |-> IF o.texture # <<>> THEN o.texture[i] ELSE o.color] IN
         Writes(o, nanint, i + 1, IF xy_filter(x, y) THEN Append(acc, w) ELSE acc)

\* Vertices.refresh: all vertices are projected and handed to render.
Vertices_refresh ==
    /\ obj.kind = "verts"
    /\ call = NoCall
    /\ \E nanint \in NanAsInt :
        call' = [op |-> "pixels", writes |-> Writes(obj, nanint, 1, <<>>)]
    /\ UNCHANGED <<obj, lensVars, modelVars>>

RefreshNext ==
    \/ Point_refresh
    \/ Line_refresh
    \/ Vertices_refresh

RefreshSpec == RefreshInit /\ [][RefreshNext]_vars

\* ------------------------------------------------------------ claims
Items(l) == IF l = None THEN <<>> ELSE heap[l]

\* run is inside a render pass (clean_canvas .. flush_canvas).
InPass == {"clean", "clean_cs", "view", "draw", "draw_cs", "flush", "flush_cs"}

\* run is inside the critical section of a canvas operation.
RenderCs == {"clean_cs", "draw_cs", "flush_cs"}

\* C1: after the draw calls made since the scene was last empty and one
\* flush(), get_objects() returns exactly the objects drawn, in the order of
\* the calls, and goes on returning that sequence until the next flush or
\* clear (after a clear it returns the empty sequence).
ThmC1 == Items(get_objects) = published

WitC1 ==
    /\ Len(published) >= 2
    /\ published = last_flush
    /\ Items(get_objects) = <<1, 2>>

\* C2: the sequence the render loop obtains from get_objects() is, at the
\* moment it obtains it, empty or the complete draft of the last completed
\* flush, and no object drawn since the last flush is ever in the sequence
\* the loop holds.
ThmC2 ==
    /\ [][(rpc = "get" /\ rpc' # "get") => Items(objects)' \in {<<>>, last_flush}]_vars
    /\ [](Range(Items(objects)) \cap Range(pending) = {})

WitC2 ==
    /\ rpc = "view"
    /\ Len(Items(objects)) >= 1
    /\ Items(objects) = last_flush
    /\ Len(pending) >= 1

\* C3: while the render loop holds a sequence returned by get_objects(), no
\* step of any thread (draw*, flush, clear) changes that sequence.
ThmC3 == [][(objects # None /\ objects' = objects) => heap'[objects] = heap[objects]]_vars

WitC3 ==
    /\ rpc \in {"view", "draw", "draw_cs"}
    /\ Len(Items(objects)) >= 1
    /\ objects # active_objects
    /\ Len(pending) >= 1

\* C4 as stated: a render pass that is about to begin (clean_canvas not yet
\* entered) draws the object set published by the last completed flush().
OrigC4 == (rpc = "clean") => Items(objects) = last_flush

\* C4 amended: the list an iteration gets from get_objects() is the one
\* published by the last flush (or clear) completed before that call, and the
\* pass of that iteration draws objects of that list only, in its order; a
\* flush completed after the call is seen by the next call.
DrawnFrom(ops, items) ==
    \E f \in [1..Len(ops) -> 1..Len(items)] :
        /\ \A k \in 1..Len(ops) : items[f[k]] = ops[k]
        /\ \A j, k \in 1..Len(ops) : j < k => f[j] < f[k]

ThmC4 ==
    /\ [][(rpc = "get" /\ rpc' # "get") => Items(objects)' = published]_vars
    /\ []((rpc \in {"view", "draw", "draw_cs", "flush", "flush_cs"} /\ canvas_hidden # None)
            => DrawnFrom(bufs[canvas_hidden].ops, SubSeq(Items(objects), 1, ri - 1)))

WitC4 ==
    /\ rpc = "flush_cs"
    /\ Len(last_flush) >= 1
    /\ published = last_flush
    /\ Items(objects) # last_flush
    /\ Len(bufs[canvas_hidden].ops) >= 1

\* C5 as stated: when a stop() that had to wait for the render thread
\* returns, the loop has left at an iteration boundary, through the test of
\* `while self._running`, and not in the middle of a frame.
OrigC5 == (stop_ret = "joined") => rpc = "done"

\* C5, the other parts (hold): a stop() that waits for the render thread
\* returns (under FairSpec), and a render thread that has ended takes no
\* further step on the canvas or the scene.
StopReturns == (mpc = "joining") ~> (mpc = "idle")

NoOrphan == [][(rpc \in {"done", "crashed"}) => UNCHANGED <<renderVars, canvasVars>>]_vars

\* C6 as stated: a stop() called while the render loop is not running (never
\* started, or ended) returns without error and leaves the running flag and
\* the canvas as they were.
OrigC6 ==
    [][(stop /\ ~Alive) => (stop_ret' # "error" /\ UNCHANGED <<running, canvasVars>>)]_vars

\* C7 as stated (second half): once the loop is started, the scene bound and
\* the active list not empty, the loop eventually swaps a frame in, unless
\* stop() is called or the active list is emptied first.
OrigC7 ==
    []((Alive /\ scene /\ Len(Items(active_objects)) > 0)
        => <>(rpc = "flush_cs" \/ ~running \/ Len(Items(active_objects)) = 0))

\* C7, first half (holds): the render thread is inside a pass only with a
\* bound scene and a non-empty list from get_objects.
IdleNoCanvas == (rpc \in InPass) => (scene /\ Len(Items(objects)) > 0)

\* C8 as stated: while the active list is empty (after clear(), or a flush()
\* of an empty draft) the shown buffer is not replaced.
OrigC8 == [][Len(Items(active_objects)) = 0 => canvas_shown' = canvas_shown]_vars

\* C8 amended: an iteration whose list from get_objects() is empty goes back
\* to the top of the loop with the hidden and shown buffers untouched; a pass
\* is made, and shown replaced, only for a non-empty list.  After clear() a
\* pass already holding a non-empty list still swaps once.
ThmC8 ==
    /\ [][(rpc = "get" /\ rpc' # rpc /\ Len(Items(objects)') = 0)
            => (rpc' = "loop" /\ UNCHANGED canvasVars)]_vars
    /\ [][canvas_shown' # canvas_shown => (rpc = "flush_cs" /\ Len(Items(objects)) > 0)]_vars
    /\ [](rpc \in InPass => Len(Items(objects)) > 0)

WitC8 ==
    /\ rpc = "loop"
    /\ objects # None
    /\ Len(Items(objects)) = 0
    /\ published = <<>>
    /\ Len(last_flush) >= 1
    /\ Len(bufs[canvas_shown].ops) >= 1

\* C9: a thread is inside a canvas operation (clean_canvas, draw_*_2d, render,
\* flush_canvas of the render thread; the display of shown by play) only while
\* it holds the canvas lock, so the two threads are never inside one together.
ThmC9 ==
    /\ rpc \in RenderCs => canvas_lock = "render"
    /\ mpc = "play_cs" => canvas_lock = "main"
    /\ ~(rpc \in RenderCs /\ mpc = "play_cs")

WitC9 ==
    /\ mpc = "play_cs"
    /\ rpc \in {"clean", "draw", "flush"}

\* C10: whenever draw_point_2d, draw_line_2d or render writes, the hidden
\* buffer is an array (not the None flush_canvas leaves) of the canvas size.
ThmC10 ==
    rpc = "draw_cs" =>
        /\ canvas_hidden # None
        /\ bufs[canvas_hidden].shape = <<CanvasH, CanvasW>>

WitC10 ==
    /\ rpc = "draw_cs"
    /\ Len(bufs[canvas_shown].ops) >= 1

\* ------------------------------------------------ claims C11 .. C20
\* run is about to refresh a Point whose camera-frame depth is below the near
\* plane (its projection is the nan sentinel).
InvalidPoint ==
    /\ rpc = "view"
    /\ ri <= Len(Items(objects))
    /\ objs[Items(objects)[ri]].kind = "point"
    /\ ~project_valid(trans_to_cam(objs[Items(objects)[ri]].z))

\* C11 as stated: the refresh of a Point with an invalid projection makes no
\* draw call and raises no error: the loop goes on to the next object of the
\* frame with the canvas untouched.
OrigC11 ==
    [][(InvalidPoint /\ <<rpc, ri>>' # <<rpc, ri>>)
        => (rpc' = "view" /\ ri' = ri + 1 /\ UNCHANGED canvasVars)]_vars

\* The camera-frame depth of vertex i of the object followed.
Depth(i) == obj.v[i][3] - camz

\* C12: a line with an end whose camera-frame depth is below 0.03 makes no
\* draw call at all, whichever end it is and whether the other is valid or
\* not; a line with both ends at or beyond the near plane makes one
\* draw_line_2d call.
ThmC12 ==
    (obj.kind = "line" /\ call # NoCall) =>
        /\ (Depth(1) < NearPlane \/ Depth(2) < NearPlane) => call = [op |-> "skip"]
        /\ (Depth(1) >= NearPlane /\ Depth(2) >= NearPlane) => call.op = "line"

WitC12 ==
    /\ obj.kind = "line"
    /\ Depth(1) >= NearPlane
    /\ Depth(2) < NearPlane
    /\ call = [op |-> "skip"]

\* The projection of vertex i of the object followed, and its pixel when the
\* projection is not the sentinel.
Proj(i) == project(trans_to_cam3(obj.v[i]))
Pixel(i) == <<AsInt(Proj(i).un, Proj(i).d), AsInt(Proj(i).vn, Proj(i).d)>>
VertexColor(i) == IF obj.texture # <<>> THEN obj.texture[i] ELSE obj.color
WritesOf(i) == {k \in 1..Len(call.writes) : call.writes[k].vertex = i}

\* C13 as stated (last part): every vertex whose pixel is inside the canvas
\* bounds, 0 <= x < width and 0 <= y < height, is written.
OrigC13 ==
    (obj.kind = "verts" /\ call # NoCall) =>
        \A i \in 1..Len(obj.v) :
            (/\ ~Proj(i).nan
             /\ 0 <= Pixel(i)[1] /\ Pixel(i)[1] < CanvasW
             /\ 0 <= Pixel(i)[2] /\ Pixel(i)[2] < CanvasH) => WritesOf(i) # {}

\* C13 amended: render raises nothing and writes pixel (x, y) only if
\* 0 < x < width and 0 < y < height; a vertex is written, once, with its
\* texture colour or else the cloud colour, exactly when its projection is
\* not the sentinel and its pixel is strictly inside these bounds; a vertex
\* on column 0 or row 0 is dropped like one outside the canvas.
ThmC13 ==
    (obj.kind = "verts" /\ call # NoCall) =>
        /\ call.op = "pixels"
        /\ \A k \in 1..Len(call.writes) :
            /\ 0 < call.writes[k].at[1] /\ call.writes[k].at[1] < CanvasW
            /\ 0 < call.writes[k].at[2] /\ call.writes[k].at[2] < CanvasH
        /\ \A i \in 1..Len(obj.v) :
            IF /\ ~Proj(i).nan
               /\ 0 < Pixel(i)[1] /\ Pixel(i)[1] < CanvasW
               /\ 0 < Pixel(i)[2] /\ Pixel(i)[2] < CanvasH
            THEN /\ Cardinality(WritesOf(i)) = 1
                 /\ \A k \in WritesOf(i) :
                        call.writes[k] = [vertex |-> i, at |-> Pixel(i), color |-> VertexColor(i)]
            ELSE WritesOf(i) = {}

WitC13 ==
    /\ obj.kind = "verts"
    /\ call # NoCall
    /\ Len(obj.v) = 2
    /\ obj.texture # <<>>
    /\ ~Proj(1).nan /\ Pixel(1)[1] = 0
    /\ WritesOf(1) = {}
    /\ WritesOf(2) # {}

\* test()'s first line, from (0, 0, 0) to (1, 0, 0), and its camera.
TestLine == [kind |-> "line", v |-> <<<<0, 0, 0>>, <<100, 0, 0>>>>, color |-> "red", texture |-> <<>>]
TestCamZ == -1000

Listed == Range(Items(active_objects)) \cup Range(Items(drawing_objects))

\* C15: clear() leaves the draft and the active list empty and every object
\* that was in either unbound; a clear() of a scene whose lists are already
\* empty (a second clear() at once) leaves the objects and both lists as they
\* are.  clear() has no failing path.
ThmC15 ==
    [][clear =>
        /\ Items(active_objects)' = <<>>
        /\ Items(drawing_objects)' = <<>>
        /\ \A o \in Listed : ~objs'[o].bound
        /\ (Listed = {}) => UNCHANGED <<objs, pending, published>>]_vars

WitC15 ==
    /\ Len(objs) = 2
    /\ last_flush = <<1>>
    /\ published = <<>>
    /\ Listed = {}
    /\ \A o \in 1..2 : ~objs[o].bound

\* C16 as stated: whenever the render thread's project reads the intrinsic
\* matrix, entries (0,0) and (1,1) both equal f * s for the focus and scale of
\* that moment, whatever focus and scale keys play is handling.
OrigC16 ==
    [][project_read => (seen'[1] = focus * scale /\ seen'[2] = focus * scale)]_vars

\* C16, the part that holds: outside the setters (no assignment of focus or
\* scale in progress) both entries equal f * s.
IntrinsicAtRest ==
    (mpc \notin {"set00", "set11"}) => intrinsic = <<focus * scale, focus * scale>>

\* C16, a weaker statement that fails too: the two entries a projection
\* reads are equal to each other (the same zoom on both axes).
NoTornRead == seen # <<>> => seen[1] = seen[2]

\* C17: from the initial focus 1, under any sequence of zoom-in and zoom-out
\* keys the focus stays within [0.1, 2000]; a zoom-out at 0.1 leaves it at
\* 0.1 and a zoom-in at 2000 leaves it at 2000.
ThmC17 ==
    /\ [](FocusMin <= focus /\ focus <= FocusMax)
    /\ [][(key_minus /\ focus = FocusMin) => focus' = FocusMin]_vars
    /\ [][(key_equal /\ focus = FocusMax) => focus' = FocusMax]_vars

\* A zoom-in at 2000 has just been handled: the focus is 2000 and the matrix
\* still holds the 2000 * s of before the key.
WitC17 ==
    /\ mpc = "set00"
    /\ focus = FocusMax
    /\ intrinsic = <<FocusMax * scale, FocusMax * scale>>

\* C18 as stated: every render pass, once begun, clears the hidden buffer,
\* refreshes every object of its snapshot once, in order, and only then ends,
\* by the swap of hidden into shown.
OrigC18 ==
    [][(rpc \in InPass /\ rpc' \notin InPass)
        => (/\ rpc = "flush_cs"
            /\ ri = Len(Items(objects)) + 1
            /\ canvas_shown' = canvas_hidden)]_vars

\* C18, the order (holds): a pass starts its refreshes from a blank hidden
\* buffer at the first object, goes through the snapshot one object at a time
\* in sequence order, drawing in that order, and shown is replaced only when
\* every object has been refreshed.
PassOrder ==
    /\ [][(rpc = "clean_cs" /\ rpc' # rpc)
            => (rpc' = "view" /\ ri' = 1 /\ bufs'[canvas_hidden'] = Zeros)]_vars
    /\ [][(rpc \in {"view", "draw", "draw_cs"} /\ ri' # ri /\ rpc' # "crashed")
            => (ri' = ri + 1 /\ ri <= Len(Items(objects)))]_vars
    /\ [][canvas_shown' # canvas_shown
            => (rpc = "flush_cs" /\ ri = Len(Items(objects)) + 1)]_vars
    /\ []((rpc = "flush_cs")
            => DrawnFrom(bufs[canvas_hidden].ops, Items(objects)))

NoDup(q) == \A i, j \in 1..Len(q) : i # j => q[i] # q[j]

\* C20: each object is at most once in the draft and the active list taken
\* together, and flush() leaves the draft empty.
ThmC20 ==
    /\ [](NoDup(Items(active_objects) \o Items(drawing_objects)))
    /\ [][flush => Items(drawing_objects)' = <<>>]_vars

WitC20 ==
    /\ Items(active_objects) = <<2>>
    /\ Items(drawing_objects) = <<>>
    /\ ~objs[1].bound
    /\ last_flush = <<2>>

=============================================================================
